---------------------------- MODULE Spec2Model ----------------------------
(***************************************************************************)
(* Model of src/ui/background_pattern.rs (egui-snarl): the Viewport        *)
(* coordinate transforms and the grid background pattern's enumeration of  *)
(* visible lattice lines.                                                  *)
(*                                                                         *)
(* Numbers.  The program computes in f32.  A value v is modelled by the    *)
(* integer v * Den (fixed point, Den units to 1).  Every f32 operation is  *)
(* the exact operation followed by rounding (RndQ):                        *)
(*   arith = "real": no rounding, the algebraic reading of the expression; *)
(*       the result must lie on the 1/Den grid, and evaluation fails (a    *)
(*       CHOOSE over an empty set) if it ever does not;                    *)
(*   arith = "f32":  round to nearest, ties to even, in a binary format    *)
(*       with a Prec-bit significand whose smallest step is Quantum        *)
(*       (IEEE-754 binary32 narrowed from 24 significand bits and a step   *)
(*       of 2^-149, so that rounding happens on small values).             *)
(***************************************************************************)
EXTENDS Integers, Sequences, FiniteSets, TLC

VARIABLES
    arith,        \* "real" | "f32": how the arithmetic of this run rounds
    pattern,      \* the BackgroundPattern being drawn (enum value)
    viewport,     \* the Viewport of the frame: rect, scale, offset
    painter,      \* the Painter's line_segment calls of the frame, in order
    lines,        \* the loop variables x and y of Grid::draw, in order
    strokeCalls,  \* calls of SnarlStyle::get_bg_pattern_stroke in the frame
    drawn,        \* whether BackgroundPattern::draw has run in the frame
    probe         \* a value carried through the Viewport transforms

vars == <<arith, pattern, viewport, painter, lines, strokeCalls, drawn, probe>>

----------------------------------------------------------------------------
(* Bounds of the model.                                                    *)

MaxSize == 2        \* screen rect width and height range over 0..MaxSize
Prec == 5           \* significand bits of the narrowed f32
MaxHops == 2        \* transforms applied in a row to one probe value

----------------------------------------------------------------------------
(* Fixed-point numbers.                                                    *)

Den == 8 * 3 * 25           \* units to 1
Quantum == Den \div 8       \* the smallest step of the narrowed f32, in units

Abs(i) == IF i < 0 THEN -i ELSE i

\* n / d when d divides n; no value otherwise.
Exact(n, d) == CHOOSE q \in {n \div d} : q * d = n

\* The integer i and the fraction n / d as numbers.
U(i) == i * Den
F(n, d) == Exact(n * Den, d)

RECURSIVE Pow2(_)
Pow2(k) == IF k = 0 THEN 1 ELSE 2 * Pow2(k - 1)

\* Nearest integer to n / d (n >= 0, d > 0), ties to even.
RoundHalfEven(n, d) ==
    LET q == n \div d
        r == n % d
    IN  IF 2 * r < d THEN q
        ELSE IF 2 * r > d THEN q + 1
        ELSE IF q % 2 = 0 THEN q ELSE q + 1

\* The unit in the last place, in quanta, of n / d quanta (n >= 0, d > 0):
\* the least power of two u >= 1 with n / d < 2^Prec * u.
RECURSIVE UlpOf(_, _, _)
UlpOf(n, d, u) == IF n >= Pow2(Prec) * u * d THEN UlpOf(n, d, 2 * u) ELSE u

\* n / d units (d > 0) rounded to the nearest f32, ties to even.
RoundF32(n, d) ==
    LET u == UlpOf(Abs(n), d * Quantum, 1)
        m == RoundHalfEven(Abs(n), d * Quantum * u)
    IN  (IF n < 0 THEN -1 ELSE 1) * m * u * Quantum

\* The result n / d units of an operation, as the run's arithmetic gives it.
RndQ(n, d) ==
    LET sn == IF d < 0 THEN -n ELSE n
        sd == Abs(d)
    IN  IF arith = "f32" THEN RoundF32(sn, sd) ELSE Exact(sn, sd)

\* The f32 operators +, -, *, / and the exact f32 methods max, min, ceil, floor.
Add(a, b) == RndQ(a + b, 1)
Sub(a, b) == RndQ(a - b, 1)
Mul(a, b) == RndQ(a * b, Den)
Div(a, b) == RndQ(a * Den, b)
Neg(a) == -a
Max(a, b) == IF a < b THEN b ELSE a
Min(a, b) == IF b < a THEN b ELSE a
Ceil(a) == (-((-a) \div Den)) * Den
Floor(a) == (a \div Den) * Den

\* `f as i64` for a float f: truncation toward zero (saturation at the i64
\* limits is outside the model's range).
AsI64(a) == IF a < 0 THEN -((-a) \div Den) ELSE a \div Den

\* `i as f32` for an integer i.
AsF32(i) == RndQ(i * Den, 1)

----------------------------------------------------------------------------
(* egui::emath: Pos2 / Vec2 (records x, y), Rect (min, max), Rot2 (s, c).   *)

vec2(x, y) == [x |-> x, y |-> y]

\* Pos2 + Vec2, Pos2 - Vec2, Pos2 * f32, Pos2 / f32 (and the same on Vec2).
VAdd(p, v) == vec2(Add(p.x, v.x), Add(p.y, v.y))
VSub(p, v) == vec2(Sub(p.x, v.x), Sub(p.y, v.y))
VMul(p, f) == vec2(Mul(p.x, f), Mul(p.y, f))
VDiv(p, f) == vec2(Div(p.x, f), Div(p.y, f))

\* Vec2::min / Vec2::max: component-wise.
VMin(a, b) == vec2(Min(a.x, b.x), Min(a.y, b.y))
VMax(a, b) == vec2(Max(a.x, b.x), Max(a.y, b.y))

Rect_from_min_max(min, max) == [min |-> min, max |-> max]

\* Rect::center: ((min.x + max.x) / 2, (min.y + max.y) / 2).
Rect_center(r) ==
    vec2(Div(Add(r.min.x, r.max.x), U(2)), Div(Add(r.min.y, r.max.y), U(2)))

\* An angle is k in 0..11, standing for (k \div 3) * 90 degrees plus 0,
\* atan(3/4) or atan(4/3) (k % 3 = 0, 1, 2): the angles whose sine and
\* cosine are rational.  SinCos(k) = <<sin, cos>>.
RECURSIVE SinCos(_)
SinCos(k) ==
    IF k >= 3 THEN LET p == SinCos(k - 3) IN <<p[2], Neg(p[1])>>
    ELSE IF k = 0 THEN <<U(0), U(1)>>
    ELSE IF k = 1 THEN <<F(3, 5), F(4, 5)>>
    ELSE <<F(4, 5), F(3, 5)>>

\* Rot2::from_angle: Rot2 { s: sin(angle), c: cos(angle) }.
Rot2_from_angle(angle) == [s |-> SinCos(angle)[1], c |-> SinCos(angle)[2]]

\* Rot2::inverse: Rot2 { s: -s, c: c }.
Rot2_inverse(rot) == [s |-> Neg(rot.s), c |-> rot.c]

\* Bug variant: c in place of s in the first component.
Rot2_mul_typo(rot, v) ==
    vec2(Sub(Mul(rot.c, v.x), Mul(rot.c, v.y)),
         Add(Mul(rot.s, v.x), Mul(rot.c, v.y)))

\* Rot2 * Vec2: (c * x - s * y, s * x + c * y).
Rot2_mul(rot, v) ==
    vec2(Sub(Mul(rot.c, v.x), Mul(rot.s, v.y)),
         Add(Mul(rot.s, v.x), Mul(rot.c, v.y)))

\* Bug variant: the bounding box of the rotated min and max corners only.
Rect_rotate_bb_two(r, rot) ==
    LET a == Rot2_mul(rot, vec2(r.min.x, r.min.y))
        d == Rot2_mul(rot, vec2(r.max.x, r.max.y))
    IN  Rect_from_min_max(VMin(a, d), VMax(a, d))

\* Rect::rotate_bb: the bounding box of the four rotated corners.
Rect_rotate_bb(r, rot) ==
    LET a == Rot2_mul(rot, vec2(r.min.x, r.min.y))
        b == Rot2_mul(rot, vec2(r.max.x, r.min.y))
        c == Rot2_mul(rot, vec2(r.min.x, r.max.y))
        d == Rot2_mul(rot, vec2(r.max.x, r.max.y))
    IN  Rect_from_min_max(VMin(VMin(VMin(a, b), c), d),
                          VMax(VMax(VMax(a, b), c), d))

----------------------------------------------------------------------------
(* Viewport.                                                               *)

\* Bug variant: multiplying by the scale instead of dividing by it.
screen_pos_to_graph_mul(self, pos) ==
    VMul(VSub(VAdd(pos, self.offset), Rect_center(self.rect)), self.scale)

\* (pos + self.offset - self.rect.center().to_vec2()) / self.scale
screen_pos_to_graph(self, pos) ==
    VDiv(VSub(VAdd(pos, self.offset), Rect_center(self.rect)), self.scale)

\* Bug variant: the offset added instead of subtracted.
graph_pos_to_screen_plus(self, pos) ==
    VAdd(VAdd(VMul(pos, self.scale), self.offset), Rect_center(self.rect))

\* pos * self.scale - self.offset + self.rect.center().to_vec2()
graph_pos_to_screen(self, pos) ==
    VAdd(VSub(VMul(pos, self.scale), self.offset), Rect_center(self.rect))

\* size * self.scale
graph_vec_to_screen(self, size) == VMul(size, self.scale)

\* size / self.scale
screen_vec_to_graph(self, size) == VDiv(size, self.scale)

\* size * self.scale
graph_size_to_screen(self, size) == Mul(size, self.scale)

\* size / self.scale
screen_size_to_graph(self, size) == Div(size, self.scale)

----------------------------------------------------------------------------
(* Grid.                                                                   *)

\* Grid::new
Grid_new(spacing, angle) == [spacing |-> spacing, angle |-> angle]

\* BackgroundPattern::grid and the NoPattern variant.
BackgroundPattern_grid(spacing, angle) ==
    [kind |-> "Grid", grid |-> Grid_new(spacing, angle)]

NoPattern == [kind |-> "NoPattern"]

\* SnarlStyle::get_bg_pattern_stroke(scale, style): the stroke is a function
\* of the scale (and of the style, which is fixed here).
get_bg_pattern_stroke(scale) == [stroke_for_scale |-> scale]

\* Bug variant: the spacing clamped at 0.5 instead of 1.
EffectiveSpacing_half(self) ==
    vec2(Max(self.spacing.x, F(1, 2)), Max(self.spacing.y, F(1, 2)))

\* let spacing = vec2(self.spacing.x.max(1.0), self.spacing.y.max(1.0));
EffectiveSpacing(self) ==
    vec2(Max(self.spacing.x, U(1)), Max(self.spacing.y, U(1)))

\* let graph_viewport = Rect::from_min_max(screen_pos_to_graph(rect.min),
\*                                         screen_pos_to_graph(rect.max));
GraphViewport(vp) ==
    Rect_from_min_max(screen_pos_to_graph(vp, vp.rect.min),
                      screen_pos_to_graph(vp, vp.rect.max))

\* let pattern_bounds = graph_viewport.rotate_bb(rot_inv);
PatternBounds(self, vp) ==
    Rect_rotate_bb(GraphViewport(vp),
                   Rot2_inverse(Rot2_from_angle(self.angle)))

\* Bug variant: the first index rounded down instead of up.
MinIndex_floor(lo, spacing) == Floor(Div(lo, spacing))

\* Bug variant: the last index rounded up instead of down.
MaxIndex_ceil(hi, spacing) == Ceil(Div(hi, spacing))

\* min_x = (pattern_bounds.min.x / spacing.x).ceil(), and so on.
MinIndex(lo, spacing) == Ceil(Div(lo, spacing))
MaxIndex(hi, spacing) == Floor(Div(hi, spacing))

\* Bug variant: the loop bound cast to an unsigned integer (a negative
\* float saturates to 0, so the range 0..=0 has one iteration).
LoopLast_unsigned(min, max) ==
    IF Sub(max, min) < 0 THEN 0 ELSE AsI64(Sub(max, min))

\* Bug variant: an off-by-one loop bound, one iteration too many.
LoopLast_extra(min, max) == AsI64(Sub(max, min)) + 1

\* The last value of `0..=(max - min) as i64`; the range is empty when it
\* is negative.
LoopLast(min, max) == AsI64(Sub(max, min))

\* One iteration of the first loop: the line at pattern-local x.
XIteration(vp, rot, pb, spacing, stroke, min_x, i) ==
    LET x == Mul(Add(AsF32(i), min_x), spacing.x)
        top == Rot2_mul(rot, vec2(x, pb.min.y))
        bottom == Rot2_mul(rot, vec2(x, pb.max.y))
    IN  [line |-> <<"x", x>>,
         call |-> [a |-> graph_pos_to_screen(vp, top),
                   b |-> graph_pos_to_screen(vp, bottom),
                   stroke |-> stroke]]

\* One iteration of the second loop: the line at pattern-local y.
YIteration(vp, rot, pb, spacing, stroke, min_y, i) ==
    LET y == Mul(Add(AsF32(i), min_y), spacing.y)
        top == Rot2_mul(rot, vec2(pb.min.x, y))
        bottom == Rot2_mul(rot, vec2(pb.max.x, y))
    IN  [line |-> <<"y", y>>,
         call |-> [a |-> graph_pos_to_screen(vp, top),
                   b |-> graph_pos_to_screen(vp, bottom),
                   stroke |-> stroke]]

\* for x in 0..=last { ... }
XLoop(vp, rot, pb, spacing, stroke, min_x, last) ==
    [i \in 1..(IF last < 0 THEN 0 ELSE last + 1) |->
        XIteration(vp, rot, pb, spacing, stroke, min_x, i - 1)]

\* for y in 0..=last { ... }
YLoop(vp, rot, pb, spacing, stroke, min_y, last) ==
    [i \in 1..(IF last < 0 THEN 0 ELSE last + 1) |->
        YIteration(vp, rot, pb, spacing, stroke, min_y, i - 1)]

\* Grid::draw: the call of get_bg_pattern_stroke, then the iterations of
\* the two loops, in order.
Grid_draw(self, vp) ==
    LET bg_stroke == get_bg_pattern_stroke(vp.scale)
        spacing == EffectiveSpacing(self)
        rot == Rot2_from_angle(self.angle)
        pb == PatternBounds(self, vp)
        min_x == MinIndex(pb.min.x, spacing.x)
        max_x == MaxIndex(pb.max.x, spacing.x)
        min_y == MinIndex(pb.min.y, spacing.y)
        max_y == MaxIndex(pb.max.y, spacing.y)
    IN  [strokes |-> 1,
         its |-> XLoop(vp, rot, pb, spacing, bg_stroke, min_x, LoopLast(min_x, max_x))
                 \o YLoop(vp, rot, pb, spacing, bg_stroke, min_y, LoopLast(min_y, max_y))]

\* Bug variant: the stroke is resolved before the match, for every variant.
BackgroundPattern_draw_stroke_first(self, vp) ==
    IF self.kind = "Grid" THEN Grid_draw(self.grid, vp)
    ELSE [strokes |-> 1, its |-> <<>>]

\* BackgroundPattern::draw: match self { Grid(g) => g.draw(..), NoPattern => {} }
BackgroundPattern_draw(self, vp) ==
    IF self.kind = "Grid" THEN Grid_draw(self.grid, vp)
    ELSE [strokes |-> 0, its |-> <<>>]

----------------------------------------------------------------------------
(* Inputs.                                                                 *)

Scales == {F(1, 2), U(1), U(2)}
Origins == {vec2(U(1), U(2))}
Sizes == 0..MaxSize
Offsets == {-1, 0, 1}
Angles == {0, 1, 2, 3, 4, 6, 8, 11}
Spacings ==
    {vec2(U(0), U(0)), vec2(U(1), U(1)), vec2(U(2), U(2)), vec2(U(3), U(3)),
     vec2(U(-1), F(1, 2)), vec2(U(1), U(2)), vec2(U(2), U(1)),
     vec2(F(1, 2), U(3))}

Rects ==
    {Rect_from_min_max(o, vec2(o.x + U(w), o.y + U(h))) :
        o \in Origins, w \in Sizes, h \in Sizes}

Viewports ==
    {[rect |-> r, scale |-> s, offset |-> vec2(U(ox), U(oy))] :
        r \in Rects, s \in Scales, ox \in Offsets, oy \in Offsets}

Patterns ==
    {NoPattern} \cup
    {BackgroundPattern_grid(sp, a) : sp \in Spacings, a \in Angles}

NoProbe == [kind |-> "none"]

----------------------------------------------------------------------------
(* The frame: the host builds a Viewport and calls BackgroundPattern::draw. *)

Init ==
    /\ arith = "real"
    /\ pattern \in Patterns
    /\ viewport \in Viewports
    /\ painter = <<>>
    /\ lines = <<>>
    /\ strokeCalls = 0
    /\ drawn = FALSE
    /\ probe = NoProbe

\* The painter.line_segment calls, and the loop variables, of iterations its.
Calls(its) == [i \in DOMAIN its |-> its[i].call]
LoopVars(its) == [i \in DOMAIN its |-> its[i].line]

Effects(run) ==
    /\ painter' = Calls(run.its)
    /\ lines' = LoopVars(run.its)
    /\ strokeCalls' = run.strokes

\* The host calls BackgroundPattern::draw with the frame's viewport.
Draw ==
    /\ Effects(BackgroundPattern_draw(pattern, viewport))
    /\ drawn' = TRUE
    /\ UNCHANGED <<arith, pattern, viewport, probe>>

Next == Draw

Spec == Init /\ [][Next]_vars

----------------------------------------------------------------------------
(* The host converts a position, a vector or a size between screen space   *)
(* and graph space with the Viewport's methods, here under either          *)
(* arithmetic.                                                             *)

ProbeScales == {F(1, 2), U(2), U(3)}
ProbeOffsets == {vec2(U(0), U(0)), vec2(U(16), U(-1))}
ProbeViewports ==
    {[rect |-> r, scale |-> s, offset |-> o] :
        r \in Rects, s \in ProbeScales, o \in ProbeOffsets}
ProbePoints == {vec2(F(1, 4), U(1)), vec2(U(3), F(-1, 4)), vec2(U(-2), F(3, 4))}
ProbeSizes == {F(1, 4), U(1), U(3)}

Probe(kind, space, v) ==
    [kind |-> kind, space |-> space, orig |-> v, cur |-> v, hops |-> 0]

TransformInit ==
    /\ arith \in {"real", "f32"}
    /\ pattern = NoPattern
    /\ viewport \in ProbeViewports
    /\ painter = <<>>
    /\ lines = <<>>
    /\ strokeCalls = 0
    /\ drawn = FALSE
    /\ \E space \in {"screen", "graph"} :
          \/ \E v \in ProbePoints : probe = Probe("pos", space, v)
          \/ \E v \in ProbePoints : probe = Probe("vec", space, v)
          \/ \E v \in ProbeSizes : probe = Probe("size", space, v)

\* The probe is of the given kind, in the given space, and is converted to
\* the other space with result v.
Convert(kind, from, to, v) ==
    /\ probe.kind = kind
    /\ probe.space = from
    /\ probe.hops < MaxHops
    /\ probe' = [probe EXCEPT !.cur = v, !.space = to, !.hops = @ + 1]
    /\ UNCHANGED <<arith, pattern, viewport, painter, lines, strokeCalls, drawn>>

ScreenPosToGraph ==
    Convert("pos", "screen", "graph", screen_pos_to_graph(viewport, probe.cur))

GraphPosToScreen ==
    Convert("pos", "graph", "screen", graph_pos_to_screen(viewport, probe.cur))

GraphVecToScreen ==
    Convert("vec", "graph", "screen", graph_vec_to_screen(viewport, probe.cur))

ScreenVecToGraph ==
    Convert("vec", "screen", "graph", screen_vec_to_graph(viewport, probe.cur))

GraphSizeToScreen ==
    Convert("size", "graph", "screen", graph_size_to_screen(viewport, probe.cur))

ScreenSizeToGraph ==
    Convert("size", "screen", "graph", screen_size_to_graph(viewport, probe.cur))

TransformNext ==
    \/ ScreenPosToGraph
    \/ GraphPosToScreen
    \/ GraphVecToScreen
    \/ ScreenVecToGraph
    \/ GraphSizeToScreen
    \/ ScreenSizeToGraph

TransformSpec == TransformInit /\ [][TransformNext]_vars

----------------------------------------------------------------------------
(* Vocabulary of the properties.                                           *)

IsGrid == pattern.kind = "Grid"

\* The effective spacing the specification states: max(component, 1).
AtLeastOne(v) == IF v < U(1) THEN U(1) ELSE v

\* The indices of the frame's iterations on one axis ("x" or "y").
AxisIdx(axis) == {i \in DOMAIN lines : lines[i][1] = axis}

\* The multiples k * step (step > 0) in the closed interval [lo, hi].
MultiplesIn(step, lo, hi) ==
    LET kmax == (Max(Abs(lo), Abs(hi)) \div step) + 1
    IN  {k * step : k \in {j \in (-kmax)..kmax : lo <= j * step /\ j * step <= hi}}

\* C5: drawing the NoPattern variant issues no line_segment call and does
\* not call the stroke provider, whatever the viewport.
C5_NoPatternNoOp ==
    (drawn /\ pattern.kind = "NoPattern") => (painter = <<>> /\ strokeCalls = 0)

C5_Witness ==
    /\ drawn
    /\ pattern.kind = "NoPattern"
    /\ viewport.scale = F(1, 2)
    /\ viewport.rect.max.x > viewport.rect.min.x

\* C2: at angle 0 the loop variables x of the first loop are exactly the
\* multiples of the effective spacing.x in the closed interval
\* [graph_viewport.min.x, graph_viewport.max.x], each once, and the segment
\* emitted for x is the vertical line at graph-space x.
C2_AxisAlignedLinesExact ==
    (drawn /\ IsGrid /\ pattern.grid.angle = 0) =>
        LET gv == GraphViewport(viewport)
            want == MultiplesIn(AtLeastOne(pattern.grid.spacing.x),
                                gv.min.x, gv.max.x)
            ix == AxisIdx("x")
        IN  /\ {lines[i][2] : i \in ix} = want
            /\ Cardinality(ix) = Cardinality(want)
            /\ \A i \in ix :
                  /\ screen_pos_to_graph(viewport, painter[i].a).x = lines[i][2]
                  /\ screen_pos_to_graph(viewport, painter[i].b).x = lines[i][2]

C2_Witness ==
    /\ drawn /\ IsGrid /\ pattern.grid.angle = 0
    /\ Cardinality(AxisIdx("x")) >= 2
    /\ viewport.scale # U(1)
    /\ viewport.offset.x # 0
    /\ GraphViewport(viewport).min.x % AtLeastOne(pattern.grid.spacing.x) # 0

\* The frame's line_segment calls on one axis, in order.
AxisCalls(calls, vars_, axis) ==
    LET Pick(i) == IF vars_[i][1] = axis THEN <<calls[i]>> ELSE <<>>
        F_[n \in 0..Len(calls)] ==
            IF n = 0 THEN <<>> ELSE F_[n - 1] \o Pick(n)
    IN  F_[Len(calls)]

RunAxisCalls(run, axis) == AxisCalls(Calls(run.its), LoopVars(run.its), axis)

\* C10: when no multiple of the effective spacing lies in the pattern
\* bounds on an axis (max_index < min_index), no segment is emitted for
\* that axis, and the other axis' segments are those of a grid whose
\* spacing on the empty axis is 1.
C10_EmptyRangeDrawsNothing ==
    (drawn /\ IsGrid) =>
        LET g == pattern.grid
            pb == PatternBounds(g, viewport)
        IN  /\ MultiplesIn(AtLeastOne(g.spacing.x), pb.min.x, pb.max.x) = {} =>
                /\ AxisIdx("x") = {}
                /\ AxisCalls(painter, lines, "y") =
                     RunAxisCalls(Grid_draw([g EXCEPT !.spacing.x = U(1)], viewport), "y")
            /\ MultiplesIn(AtLeastOne(g.spacing.y), pb.min.y, pb.max.y) = {} =>
                /\ AxisIdx("y") = {}
                /\ AxisCalls(painter, lines, "x") =
                     RunAxisCalls(Grid_draw([g EXCEPT !.spacing.y = U(1)], viewport), "x")

C10_Witness ==
    /\ drawn /\ IsGrid
    /\ LET pb == PatternBounds(pattern.grid, viewport)
       IN  /\ MultiplesIn(AtLeastOne(pattern.grid.spacing.x), pb.min.x, pb.max.x) = {}
           /\ pb.min.x < pb.max.x
    /\ Cardinality(AxisIdx("y")) >= 2
    /\ pattern.grid.angle # 0

\* The grid with its spacing clamped as the specification states.
Clamped(g) ==
    [g EXCEPT !.spacing = vec2(AtLeastOne(g.spacing.x), AtLeastOne(g.spacing.y))]

C6_ClampedDraw ==
    (drawn /\ IsGrid) =>
        /\ painter = Calls(Grid_draw(Clamped(pattern.grid), viewport).its)
        /\ \A i \in DOMAIN lines : i > 1 /\ lines[i][1] = lines[i - 1][1] =>
              lines[i][2] - lines[i - 1][2] =
                AtLeastOne(IF lines[i][1] = "x" THEN pattern.grid.spacing.x
                           ELSE pattern.grid.spacing.y)

\* C6: a draw enumerates lines max(spacing.x, 1) and max(spacing.y, 1)
\* apart, so its calls are those of the same grid with every component
\* below 1 set to 1; and the draw leaves the stored pattern unchanged.
C6_SpacingClampedAtDraw == [](C6_ClampedDraw) /\ [][pattern' = pattern]_vars

C6_Witness ==
    /\ drawn /\ IsGrid
    /\ pattern.grid.spacing.x < U(0)
    /\ pattern.grid.spacing.y = F(1, 2)
    /\ Cardinality(AxisIdx("x")) >= 3
    /\ Cardinality(AxisIdx("y")) >= 3

\* C8: for a square grid and a square viewport centred on the graph
\* origin, the draw at 90 degrees emits as many segments as the draw at 0.
C8_QuarterTurnSameCount ==
    (/\ drawn /\ IsGrid
     /\ pattern.grid.angle = 3
     /\ pattern.grid.spacing.x = pattern.grid.spacing.y
     /\ viewport.rect.max.x - viewport.rect.min.x
          = viewport.rect.max.y - viewport.rect.min.y
     /\ viewport.offset = vec2(U(0), U(0)))
    => Len(painter) = Len(Grid_draw([pattern.grid EXCEPT !.angle = 0], viewport).its)

C8_Witness ==
    /\ drawn /\ IsGrid
    /\ pattern.grid.angle = 3
    /\ pattern.grid.spacing = vec2(U(2), U(2))
    /\ viewport.rect.max.x - viewport.rect.min.x = U(2)
    /\ viewport.rect.max.y - viewport.rect.min.y = U(2)
    /\ viewport.offset = vec2(U(0), U(0))
    /\ viewport.scale = F(1, 2)
    /\ Len(painter) = 6

\* Width x height of the graph-space rectangle of a viewport.
GraphArea(vp) ==
    LET gv == GraphViewport(vp)
    IN  Mul(Sub(gv.max.x, gv.min.x), Sub(gv.max.y, gv.min.y))

AtScale(s) == [viewport EXCEPT !.scale = s]

RectWidth == Sub(viewport.rect.max.x, viewport.rect.min.x)
RectHeight == Sub(viewport.rect.max.y, viewport.rect.min.y)

\* C9 as stated: for any two scales s1 < s2 the graph-space area of the
\* screen rectangle is strictly smaller at s2 than at s1.
C9_AreaStrictlyDecreasing ==
    \A s1 \in Scales, s2 \in Scales :
        s1 < s2 => GraphArea(AtScale(s2)) < GraphArea(AtScale(s1))

\* C9: for any two scales s1 < s2 the graph-space area of the screen
\* rectangle is strictly smaller at s2 than at s1 when the rectangle has
\* non-zero width and height, and is zero at both scales otherwise.
C9_AreaDecreasingUnlessDegenerate ==
    \A s1 \in Scales, s2 \in Scales :
        s1 < s2 =>
            IF RectWidth # 0 /\ RectHeight # 0
            THEN GraphArea(AtScale(s2)) < GraphArea(AtScale(s1))
            ELSE GraphArea(AtScale(s2)) = 0 /\ GraphArea(AtScale(s1)) = 0

C9_Witness ==
    /\ drawn /\ IsGrid
    /\ RectWidth = U(2) /\ RectHeight = U(1)
    /\ viewport.offset.x # 0
    /\ viewport.scale = U(1)
    /\ GraphArea(AtScale(F(1, 2))) = U(8)
    /\ GraphArea(viewport) = U(2)
    /\ GraphArea(AtScale(U(2))) = F(1, 2)

\* The number of segments of the frame on one axis.
AxisCount(axis) == Cardinality(AxisIdx(axis))

\* C7 as stated: per axis, at most (screen-rectangle extent / effective
\* spacing) + 1 segments, with the extent taken generously as width +
\* height of the screen rectangle.
C7_BoundedByScreenExtent ==
    (drawn /\ IsGrid) =>
        /\ AxisCount("x") * AtLeastOne(pattern.grid.spacing.x)
             <= RectWidth + RectHeight + AtLeastOne(pattern.grid.spacing.x)
        /\ AxisCount("y") * AtLeastOne(pattern.grid.spacing.y)
             <= RectWidth + RectHeight + AtLeastOne(pattern.grid.spacing.y)

\* C7: per axis, a draw emits at most (pattern-bounds extent / effective
\* spacing) + 1 segments, and the pattern-bounds extent is at most
\* (width + height) / scale of the screen rectangle.
C7_BoundedByPatternBounds ==
    (drawn /\ IsGrid) =>
        LET pb == PatternBounds(pattern.grid, viewport)
            ex == Sub(pb.max.x, pb.min.x)
            ey == Sub(pb.max.y, pb.min.y)
        IN  /\ AxisCount("x") >= 1 =>
                 (AxisCount("x") - 1) * AtLeastOne(pattern.grid.spacing.x) <= ex
            /\ AxisCount("y") >= 1 =>
                 (AxisCount("y") - 1) * AtLeastOne(pattern.grid.spacing.y) <= ey
            /\ Mul(ex, viewport.scale) <= RectWidth + RectHeight
            /\ Mul(ey, viewport.scale) <= RectWidth + RectHeight
            /\ Len(painter) = AxisCount("x") + AxisCount("y")

C7_Witness ==
    /\ drawn /\ IsGrid
    /\ viewport.scale = F(1, 2)
    /\ pattern.grid.angle = 0
    /\ RectWidth = U(2)
    /\ AtLeastOne(pattern.grid.spacing.x) = U(1)
    /\ AxisCount("x") = 5

\* Points of the visible screen rectangle: its corners and every point of
\* it half a unit apart, on the boundary and inside.
Samples ==
    {vec2(viewport.rect.min.x + i * (Den \div 2),
          viewport.rect.min.y + j * (Den \div 2)) :
        i \in 0..(RectWidth \div (Den \div 2)),
        j \in 0..(RectHeight \div (Den \div 2))}

\* The pattern-local coordinates of a screen point: its graph position
\* rotated back by the grid angle.
PatternLocal(p) ==
    LET rot == Rot2_from_angle(pattern.grid.angle)
        g == screen_pos_to_graph(viewport, p)
    IN  vec2(Exact(rot.c * g.x + rot.s * g.y, Den),
             Exact(rot.c * g.y - rot.s * g.x, Den))

\* Point p lies on the closed segment from a to b (exact integer test).
OnSegment(p, a, b) ==
    LET dx == b.x - a.x
        dy == b.y - a.y
        t == (p.x - a.x) * dx + (p.y - a.y) * dy
    IN  /\ dx * (p.y - a.y) - dy * (p.x - a.x) = 0
        /\ 0 <= t
        /\ t <= dx * dx + dy * dy

Covered(p) == \E i \in DOMAIN painter : OnSegment(p, painter[i].a, painter[i].b)

\* C1: every point of the visible screen rectangle that lies on a lattice
\* line (pattern-local x or y a multiple of the effective spacing) lies on
\* one of the segments the draw emitted; a point on lines of both families
\* lies on a segment of each.
C1_NoVisibleLineMissed ==
    (drawn /\ IsGrid) =>
        \A p \in Samples :
            LET l == PatternLocal(p)
            IN  /\ l.x % AtLeastOne(pattern.grid.spacing.x) = 0 =>
                     \E i \in AxisIdx("x") :
                         /\ lines[i][2] = l.x
                         /\ OnSegment(p, painter[i].a, painter[i].b)
                /\ l.y % AtLeastOne(pattern.grid.spacing.y) = 0 =>
                     \E i \in AxisIdx("y") :
                         /\ lines[i][2] = l.y
                         /\ OnSegment(p, painter[i].a, painter[i].b)

\* A rotated grid with a lattice point strictly inside the rectangle.
C1_Witness ==
    /\ drawn /\ IsGrid
    /\ pattern.grid.angle % 3 # 0
    /\ viewport.scale # U(1)
    /\ \E p \in Samples :
          /\ viewport.rect.min.x < p.x /\ p.x < viewport.rect.max.x
          /\ viewport.rect.min.y < p.y /\ p.y < viewport.rect.max.y
          /\ PatternLocal(p).x % AtLeastOne(pattern.grid.spacing.x) = 0
          /\ PatternLocal(p).x # 0
          /\ Covered(p)

\* The four corners of the visible screen rectangle.
Corners ==
    {vec2(x, y) : x \in {viewport.rect.min.x, viewport.rect.max.x},
                  y \in {viewport.rect.min.y, viewport.rect.max.y}}

\* The side of point p relative to the line through a with direction d:
\* zero on the line, of opposite signs on its two sides.
Side(d, a, p) == d.x * (p.y - a.y) - d.y * (p.x - a.x)

\* The screen direction of the lattice lines of one family.
LineDir(axis) ==
    Rot2_mul(Rot2_from_angle(pattern.grid.angle),
             IF axis = "x" THEN vec2(U(0), U(1)) ELSE vec2(U(1), U(0)))

\* C3: every emitted segment lies along a lattice line (both endpoints on
\* the line whose pattern-local coordinate is a multiple of the effective
\* spacing), and that line meets the visible screen rectangle: the
\* rectangle's corners are not all strictly on one side of it.
C3_OnlyIntersectingLines ==
    (drawn /\ IsGrid) =>
        \A i \in DOMAIN painter :
            LET axis == lines[i][1]
                d == LineDir(axis)
                a == painter[i].a
                b == painter[i].b
                la == PatternLocal(a)
                lb == PatternLocal(b)
                sp == AtLeastOne(IF axis = "x" THEN pattern.grid.spacing.x
                                 ELSE pattern.grid.spacing.y)
                ca == IF axis = "x" THEN la.x ELSE la.y
                cb == IF axis = "x" THEN lb.x ELSE lb.y
            IN  /\ ca % sp = 0
                /\ cb = ca
                /\ Side(d, a, b) = 0
                /\ \E p \in Corners : Side(d, a, p) <= 0
                /\ \E p \in Corners : Side(d, a, p) >= 0

\* A rotated grid with several lines, one of them through no corner.
C3_Witness ==
    /\ drawn /\ IsGrid
    /\ pattern.grid.angle % 3 # 0
    /\ Len(painter) >= 6
    /\ \E i \in DOMAIN painter :
          \A p \in Corners : Side(LineDir(lines[i][1]), painter[i].a, p) # 0

\* A probe that went to the other space and back.
RoundTripped == probe.kind # "none" /\ probe.hops = 2

\* C4 as stated: a value converted to the other space and back is the
\* original value, for positions, vectors and sizes, in both orders.
C4_ExactInverses == RoundTripped => probe.cur = probe.orig

\* max(scale, 1 / scale), rounded up to an integer.
ScaleSpread ==
    LET s == viewport.scale
    IN  IF s >= U(1) THEN -((-s) \div Den) ELSE -((-Den) \div s)

\* The rounding error allowed on one coordinate whose round trip involves
\* magnitudes summing to m: a round trip rounds six times, each time by at
\* most half a unit in the last place (m / 2^Prec) or half a quantum, and
\* the division or multiplication by the scale spreads the error.
Tolerance(m) == ScaleSpread * ((8 * m) \div Pow2(Prec) + 8 * Quantum)

Near(a, b, m) == Abs(a - b) <= Tolerance(m)

\* C4: under real arithmetic a value converted to the other space and back
\* is exactly the original, for positions, vectors and sizes, in both
\* orders; under f32 arithmetic it is the original up to rounding error
\* proportional to the magnitudes involved (value, offset and center for a
\* position; the value alone for a vector or a size).
C4_InversesUpToRounding ==
    RoundTripped =>
        IF arith = "real" THEN probe.cur = probe.orig
        ELSE LET c == Rect_center(viewport.rect)
                 o == viewport.offset
             IN  CASE probe.kind = "pos" ->
                        /\ Near(probe.cur.x, probe.orig.x,
                                Abs(probe.orig.x) + Abs(o.x) + Abs(c.x))
                        /\ Near(probe.cur.y, probe.orig.y,
                                Abs(probe.orig.y) + Abs(o.y) + Abs(c.y))
                  [] probe.kind = "vec" ->
                        /\ Near(probe.cur.x, probe.orig.x, Abs(probe.orig.x))
                        /\ Near(probe.cur.y, probe.orig.y, Abs(probe.orig.y))
                  [] probe.kind = "size" ->
                        Near(probe.cur, probe.orig, Abs(probe.orig))

\* An f32 round trip of a screen position that does not return the
\* original: the offset absorbs the position's low bits.
C4_Witness ==
    /\ RoundTripped
    /\ arith = "f32"
    /\ probe.kind = "pos"
    /\ probe.space = "screen"
    /\ viewport.offset.x = U(16)
    /\ probe.orig.x = F(1, 4)
    /\ probe.cur.x # probe.orig.x

=============================================================================
